---- MODULE Spec2Model ----
(***************************************************************************)
(* Model of the Texas Hold'em engine of src/main.py: the persistent        *)
(* session (PokerGame), one hand (PokerHand) and the button handlers of    *)
(* PokerGameUI that drive it.  The UIPlayer mirror, the canvas and the     *)
(* widgets are display state that nothing in the engine reads back; they   *)
(* are not part of the state below.                                        *)
(*                                                                         *)
(* Python values are written as follows.  None for a hand is has_hand =    *)
(* FALSE.  An optional label (last_action) is a tuple: <<>> for None,      *)
(* <<"FOLD">>, <<"CHECK">>, <<"CALL">>, <<"RAISE", bet>>.  A two-character   *)
(* card string is the pair <<rank character, suit character>>.  A display  *)
(* name f"Seat {k} ({role})" is the pair <<k, role>>, role "" for none.     *)
(* A raise amount of None is the number NoAmount.                          *)
(*                                                                         *)
(* The hand evaluator (parse_cards, score_five and its helpers) is a pure  *)
(* function of the module; `scored` is the list of card strings a caller   *)
(* hands to it and `score` what the call gave back.  A returned value is a *)
(* record: `returned` is "tuple" for a (category, tiebreak) pair and       *)
(* "None" for None; `form` is the Python type of the tiebreak ("tuple",    *)
(* "list" or "int"); `tiebreak` lists its elements, a rank r as <<r>> and  *)
(* a nested tuple (a, b) as <<a, b>>, an int tiebreak n as << <<n>> >>.    *)
(* A helper's None is NoRank for a rank and <<>> for a tuple.              *)
(***************************************************************************)
EXTENDS Integers, Sequences, FiniteSets, TLC

VARIABLES
    n_seats,             \* PokerGame.n_seats
    big_blind_amount,    \* PokerGame.big_blind_amount
    players,             \* PokerGame.players, shared by reference with the hand
    hand_number,         \* PokerGame.hand_number
    button_pos,          \* PokerGame.button_pos
    has_hand,            \* PokerGame.hand is not None
    hand_button_pos,     \* PokerHand.button_pos
    sb_pos,              \* PokerHand.sb_pos
    bb_pos,              \* PokerHand.bb_pos
    current_player_idx,  \* PokerHand.current_player_idx
    pot,                 \* PokerHand.pot
    board,               \* PokerHand.board
    deck,                \* PokerHand.deck
    current_bet,         \* PokerHand.current_bet
    in_showdown,         \* PokerHand.in_showdown
    game_running,        \* PokerGameUI.game_running
    paused,              \* PokerGameUI.paused
    dialogs,             \* the askinteger calls ui_raise is waiting in, outermost first
    scored,              \* the argument of parse_cards / score_five
    score                \* the value score_five returned for it

gameVars == <<n_seats, big_blind_amount, players, hand_number, button_pos, has_hand>>
handVars == <<hand_button_pos, sb_pos, bb_pos, current_player_idx, pot, board,
              deck, current_bet, in_showdown>>
uiVars == <<game_running, paused, dialogs>>
evalVars == <<scored, score>>
vars == <<gameVars, handVars, uiVars, evalVars>>

(***************************************************************************)
(* Bounds of the model and constants of the program.                       *)
(***************************************************************************)
MaxHands == 2
SeatCounts == {3}
UISeatCounts == {2}
BigBlinds == {1000}
RaiseAmounts == {500}
\* the calls of ui_raise followed while they wait inside one another
MaxDialogs == 3
\* the orders of the deck followed
MaxShuffles == 2
UIRaiseAmounts == {2000}
NoAmount == 0 - 1

InitialStack == 1500
UIBigBlind == 50
DeckSize == 52

Seats == 0 .. (n_seats - 1)

Max(a, b) == IF a >= b THEN a ELSE b
Min(a, b) == IF a <= b THEN a ELSE b

RECURSIVE SumOver(_, _, _)
SumOver(f, field, k) ==
    IF k = 0 THEN 0
    ELSE (IF field = "stack" THEN f[k - 1].stack ELSE f[k - 1].bet)
         + SumOver(f, field, k - 1)

SumStacks(ps) == SumOver(ps, "stack", n_seats)
SumBets(ps) == SumOver(ps, "bet", n_seats)

RECURSIVE MaxBetUpTo(_, _)
MaxBetUpTo(ps, k) ==
    IF k = 0 THEN ps[0].bet ELSE Max(ps[k].bet, MaxBetUpTo(ps, k - 1))

(***************************************************************************)
(* Cards.                                                                  *)
(***************************************************************************)
RANKS == <<"2", "3", "4", "5", "6", "7", "8", "9", "T", "J", "Q", "K", "A">>
SUITS == <<"c", "d", "h", "s">>

card_to_str(card_id) == <<RANKS[(card_id % 13) + 1], SUITS[(card_id \div 13) + 1]>>

UnknownCards == << <<"?", "?">>, <<"?", "?">> >>

\* list(range(52)) followed by random.shuffle: any order of the 52 identities
\* may come out
Shuffles ==
    { order \in [1 .. DeckSize -> 0 .. (DeckSize - 1)] :
        \A i, j \in 1 .. DeckSize : order[i] = order[j] => i = j }

\* The orders random.shuffle leaves in start_hand after random.seed(0),
\* random.seed(1), random.seed(2) and random.seed(3)
ShuffleRuns ==
    << <<29, 12, 39, 42, 33, 7, 5, 41, 1, 50, 34, 0, 4,
         36, 20, 14, 24, 43, 46, 45, 40, 11, 3, 17, 15, 10,
         21, 27, 28, 49, 23, 35, 44, 9, 51, 6, 38, 18, 8,
         47, 13, 37, 22, 30, 19, 25, 31, 32, 16, 2, 26, 48>>,
       <<2, 38, 11, 25, 19, 9, 18, 49, 15, 29, 22, 5, 3,
         8, 37, 32, 47, 50, 23, 43, 39, 21, 12, 26, 33, 20,
         51, 44, 35, 10, 34, 40, 14, 17, 45, 0, 27, 42, 1,
         46, 6, 13, 24, 41, 30, 28, 31, 7, 16, 4, 48, 36>>,
       <<15, 29, 9, 21, 4, 6, 3, 26, 22, 24, 8, 34, 36,
         18, 40, 30, 45, 7, 20, 31, 50, 44, 46, 12, 41, 14,
         11, 0, 39, 1, 33, 17, 35, 28, 49, 32, 25, 27, 48,
         37, 2, 43, 13, 38, 16, 19, 42, 47, 10, 23, 51, 5>>,
       <<13, 28, 3, 19, 29, 26, 15, 22, 44, 10, 32, 6, 11,
         17, 33, 49, 24, 31, 1, 18, 5, 2, 21, 41, 48, 36,
         39, 27, 43, 20, 7, 9, 25, 42, 50, 45, 12, 14, 35,
         16, 46, 0, 47, 4, 51, 40, 30, 38, 23, 8, 34, 37>> >>

\* Bound: the callers of start_hand are followed with the first MaxShuffles
\* of these orders, of the 52! that line 221 may leave.
SampledShuffles ==
    { order \in {ShuffleRuns[k] : k \in 1 .. MaxShuffles} : order \in Shuffles }

(***************************************************************************)
(* The hand evaluator: parse_cards, score_five and its helpers.            *)
(***************************************************************************)
NoRank == 0 - 1
NoCategory == 0 - 1

\* RANKS.index(ch)
rank_index(ch) == (CHOOSE k \in 1 .. Len(RANKS) : RANKS[k] = ch) - 1

parse_cards(cards) ==
    [i \in 1 .. Len(cards) |-> <<rank_index(cards[i][1]) + 2, cards[i][2]>>]

\* sorted(..., key=lambda x: x[key], reverse=True) on a list of tuples: a
\* stable sort, equal keys keep the order they came in
RECURSIVE insert_by_reverse(_, _, _)
insert_by_reverse(x, ys, key) ==
    IF ys = <<>> THEN <<x>>
    ELSE IF x[key] >= Head(ys)[key] THEN <<x>> \o ys
    ELSE <<Head(ys)>> \o insert_by_reverse(x, Tail(ys), key)

RECURSIVE sorted_by_reverse(_, _)
sorted_by_reverse(xs, key) ==
    IF xs = <<>> THEN <<>>
    ELSE insert_by_reverse(Head(xs), sorted_by_reverse(Tail(xs), key), key)

RECURSIVE insert_reverse(_, _)
insert_reverse(x, ys) ==
    IF ys = <<>> THEN <<x>>
    ELSE IF x >= Head(ys) THEN <<x>> \o ys
    ELSE <<Head(ys)>> \o insert_reverse(x, Tail(ys))

\* A faulty variant of sorted_reverse: the list is left in the order given
sorted_reverse_keeps_order(xs) == xs

\* sorted(xs, reverse=True) on a list of numbers
RECURSIVE sorted_reverse(_)
sorted_reverse(xs) ==
    IF xs = <<>> THEN <<>>
    ELSE insert_reverse(Head(xs), sorted_reverse(Tail(xs)))

\* sorted(set(xs), reverse=True): the distinct values, largest first
RECURSIVE sorted_set_reverse(_)
sorted_set_reverse(S) ==
    IF S = {} THEN <<>>
    ELSE LET m == CHOOSE x \in S : \A y \in S : y <= x
         IN  <<m>> \o sorted_set_reverse(S \ {m})

\* lines 186-189: the (rank, count) items of the dict, in insertion order,
\* from position i of ranks on
RECURSIVE rank_items(_, _)
rank_items(ranks, i) ==
    IF i > Len(ranks) THEN <<>>
    ELSE IF \E j \in 1 .. (i - 1) : ranks[j] = ranks[i]
         THEN rank_items(ranks, i + 1)
         ELSE << <<ranks[i],
                   Cardinality({j \in DOMAIN ranks : ranks[j] = ranks[i]})>> >>
              \o rank_items(ranks, i + 1)

get_pairs(ranks) ==
    sorted_by_reverse(SelectSeq(rank_items(ranks, 1), LAMBDA it : it[2] # 1), 1)

\* lines 135-146, on the distinct ranks sorted
straight_of(ranks) ==
    IF Len(ranks) # 5 THEN NoRank
    ELSE IF ranks[1] - ranks[5] = 4 THEN ranks[1]
    ELSE IF ranks = <<14, 5, 4, 3, 2>> THEN 5
    ELSE NoRank

\* A faulty variant of straight_high: the wheel is not a straight
straight_high_without_wheel(ranks) ==
    LET rs == sorted_set_reverse({ranks[i] : i \in DOMAIN ranks})
    IN  IF Len(rs) = 5 /\ rs[1] - rs[5] = 4 THEN rs[1] ELSE NoRank

straight_high(ranks) ==
    straight_of(sorted_set_reverse({ranks[i] : i \in DOMAIN ranks}))

four_of_a_kind(rank_counts) ==
    IF Len(rank_counts) # 1 THEN NoRank
    ELSE IF rank_counts[1][2] = 4 THEN rank_counts[1][1]
    ELSE NoRank

\* lines 157-162, on rank_counts sorted by count
full_house_of(rank_counts) ==
    IF Len(rank_counts) # 2 THEN <<>>
    ELSE IF rank_counts[1][2] = 3 /\ rank_counts[2][2] = 2
    THEN sorted_reverse(<<rank_counts[1][1], rank_counts[2][1]>>)
    ELSE <<>>

full_house(rank_counts) == full_house_of(sorted_by_reverse(rank_counts, 2))

three_of_a_kind(rank_counts) ==
    IF Len(rank_counts) # 1 THEN NoRank
    ELSE IF rank_counts[1][2] = 3 THEN rank_counts[1][1]
    ELSE NoRank

two_pair(rank_counts) ==
    IF Len(rank_counts) # 2 THEN <<>>
    ELSE IF rank_counts[1][2] = 2 /\ rank_counts[2][2] = 2
    THEN <<rank_counts[1][1], rank_counts[1][2]>>
    ELSE <<>>

one_pair(rank_counts) ==
    IF Len(rank_counts) # 1 THEN NoRank
    ELSE IF rank_counts[1][2] = 2 THEN rank_counts[1][1]
    ELSE NoRank

\* what score_five hands back
Returned(category, tiebreak, form) ==
    [returned |-> "tuple", category |-> category, tiebreak |-> tiebreak,
     form |-> form]

ReturnedNone ==
    [returned |-> "None", category |-> NoCategory, tiebreak |-> <<>>,
     form |-> "None"]

NotCalled ==
    [returned |-> "not called", category |-> NoCategory, tiebreak |-> <<>>,
     form |-> "None"]

\* the ranks of a list as tiebreak elements
as_ranks(xs) == [i \in DOMAIN xs |-> <<xs[i]>>]

\* [first] + [rank for rank in ranks if rank != first]
rank_and_kickers(first, ranks) ==
    as_ranks(<<first>> \o SelectSeq(ranks, LAMBDA rank : rank # first))

\* line 119: [two_p] + [rank for rank in ranks if rank not in two_p]
two_pair_and_kickers(two_p, ranks) ==
    <<two_p>> \o as_ranks(SelectSeq(ranks,
                              LAMBDA rank : rank \notin {two_p[1], two_p[2]}))

\* lines 102-125
score_branches(ranks, flush, straight, rank_counts) ==
    IF straight = 14 /\ flush THEN Returned(9, <<>>, "tuple")
    ELSE IF straight # NoRank /\ flush
    THEN Returned(8, << <<straight>> >>, "int")
    ELSE IF four_of_a_kind(rank_counts) # NoRank
    THEN Returned(7, rank_and_kickers(four_of_a_kind(rank_counts), ranks), "tuple")
    ELSE IF full_house(rank_counts) # <<>>
    THEN Returned(6, as_ranks(<<full_house(rank_counts)[1],
                                full_house(rank_counts)[2]>>), "tuple")
    ELSE IF flush THEN Returned(5, as_ranks(ranks), "list")
    ELSE IF straight # NoRank THEN Returned(4, << <<straight>> >>, "int")
    ELSE IF three_of_a_kind(rank_counts) # NoRank
    THEN Returned(3, rank_and_kickers(three_of_a_kind(rank_counts), ranks), "tuple")
    ELSE IF two_pair(rank_counts) # <<>>
    THEN Returned(2, two_pair_and_kickers(two_pair(rank_counts), ranks), "tuple")
    ELSE IF one_pair(rank_counts) # NoRank
    THEN Returned(1, rank_and_kickers(one_pair(rank_counts), ranks), "tuple")
    ELSE Returned(0, as_ranks(ranks), "tuple")

\* lines 93-100, on the ranks line 92 has sorted
score_sorted(ranks, cards) ==
    score_branches(ranks,
                   Cardinality({cards[i][2] : i \in DOMAIN cards}) = 1,
                   straight_high(ranks),
                   get_pairs(ranks))

score_five(cards) ==
    IF Len(cards) # 5 THEN ReturnedNone
    ELSE score_sorted(sorted_reverse([i \in DOMAIN cards |-> cards[i][1]]), cards)

(***************************************************************************)
(* PokerHand.apply_action, one definition per branch.  Each returns the    *)
(* record [players, current_bet, pot] the call leaves behind.              *)
(***************************************************************************)
ActionKinds == {"fold", "check", "raise"}

Outcome(ps, cb, pt) == [players |-> ps, current_bet |-> cb, pot |-> pt]

fold_branch(ps, cb, pt, seat_idx) ==
    Outcome([ps EXCEPT ![seat_idx].in_hand = FALSE,
                       ![seat_idx].made_decision_this_round = TRUE,
                       ![seat_idx].last_action = <<"FOLD">>],
            cb, pt)

\* A faulty variant of check_branch: the chips leave the stack but miss the pot
check_branch_pot_forgotten(ps, cb, pt, seat_idx) ==
    LET p == ps[seat_idx]
        needed == Max(0, cb - p.bet)
        pay == Min(needed, p.stack)
    IN  Outcome([ps EXCEPT ![seat_idx].stack = p.stack - pay,
                           ![seat_idx].bet = p.bet + pay,
                           ![seat_idx].made_decision_this_round = TRUE,
                           ![seat_idx].last_action =
                               IF needed = 0 THEN <<"CHECK">> ELSE <<"CALL">>],
                cb, pt)

\* A faulty variant of check_branch: the whole amount needed is taken
check_branch_unclamped(ps, cb, pt, seat_idx) ==
    LET p == ps[seat_idx]
        needed == Max(0, cb - p.bet)
    IN  Outcome([ps EXCEPT ![seat_idx].stack = p.stack - needed,
                           ![seat_idx].bet = p.bet + needed,
                           ![seat_idx].made_decision_this_round = TRUE,
                           ![seat_idx].last_action =
                               IF needed = 0 THEN <<"CHECK">> ELSE <<"CALL">>],
                cb, pt + needed)

check_branch(ps, cb, pt, seat_idx) ==
    LET p == ps[seat_idx]
        needed == Max(0, cb - p.bet)
        pay == Min(needed, p.stack)
    IN  Outcome([ps EXCEPT ![seat_idx].stack = p.stack - pay,
                           ![seat_idx].bet = p.bet + pay,
                           ![seat_idx].made_decision_this_round = TRUE,
                           ![seat_idx].last_action =
                               IF needed = 0 THEN <<"CHECK">> ELSE <<"CALL">>],
                cb, pt + pay)

\* A faulty variant of reopen_round: a bet equal to current_bet reopens too
reopen_round_on_equal(ps, cb, seat_idx) ==
    IF ps[seat_idx].bet >= cb
    THEN [players |-> [i \in DOMAIN ps |->
                         IF ps[i].in_hand /\ i # seat_idx
                         THEN [ps[i] EXCEPT !.made_decision_this_round = FALSE]
                         ELSE ps[i]],
          current_bet |-> ps[seat_idx].bet]
    ELSE [players |-> ps, current_bet |-> cb]

\* lines 272-276: a bet above current_bet becomes current_bet and reopens the round
reopen_round(ps, cb, seat_idx) ==
    IF ps[seat_idx].bet > cb
    THEN [players |-> [i \in DOMAIN ps |->
                         IF ps[i].in_hand /\ i # seat_idx
                         THEN [ps[i] EXCEPT !.made_decision_this_round = FALSE]
                         ELSE ps[i]],
          current_bet |-> ps[seat_idx].bet]
    ELSE [players |-> ps, current_bet |-> cb]

\* A faulty variant of raise_pay: the amount is not clamped up to current_bet
raise_pay_unclamped(p, cb, raise_to) ==
    Min(Max(0, raise_to - p.bet), p.stack)

\* lines 265-267: the chips a raise to raise_to takes from player p
raise_pay(p, cb, raise_to) ==
    LET target == Max(raise_to, cb)
        needed == Max(0, target - p.bet)
    IN  Min(needed, p.stack)

\* lines 268-269
pay_in(ps, seat_idx, pay) ==
    [ps EXCEPT ![seat_idx].stack = @ - pay, ![seat_idx].bet = @ + pay]

\* lines 278-280, on the players and current_bet lines 272-276 leave
mark_raise(re, pt, seat_idx) ==
    Outcome([re.players EXCEPT
                 ![seat_idx].made_decision_this_round = TRUE,
                 ![seat_idx].last_action = <<"RAISE", re.players[seat_idx].bet>>],
            re.current_bet, pt)

raise_paying(ps, cb, pt, seat_idx, pay) ==
    mark_raise(reopen_round(pay_in(ps, seat_idx, pay), cb, seat_idx),
               pt + pay, seat_idx)

raise_branch(ps, cb, pt, seat_idx, raise_to) ==
    IF raise_to = NoAmount THEN Outcome(ps, cb, pt)
    ELSE raise_paying(ps, cb, pt, seat_idx, raise_pay(ps[seat_idx], cb, raise_to))

\* A faulty variant of apply_action: a seat that is not in_hand acts too
apply_action_ignores_in_hand(ps, cb, pt, seat_idx, action, raise_to) ==
    IF action = "fold" THEN fold_branch(ps, cb, pt, seat_idx)
    ELSE IF action = "check" THEN check_branch(ps, cb, pt, seat_idx)
    ELSE IF action = "raise" THEN raise_branch(ps, cb, pt, seat_idx, raise_to)
    ELSE Outcome(ps, cb, pt)

apply_action(ps, cb, pt, seat_idx, action, raise_to) ==
    IF ~ps[seat_idx].in_hand THEN Outcome(ps, cb, pt)
    ELSE IF action = "fold" THEN fold_branch(ps, cb, pt, seat_idx)
    ELSE IF action = "check" THEN check_branch(ps, cb, pt, seat_idx)
    ELSE IF action = "raise" THEN raise_branch(ps, cb, pt, seat_idx, raise_to)
    ELSE Outcome(ps, cb, pt)

(***************************************************************************)
(* The other methods of PokerHand.                                         *)
(***************************************************************************)
\* A faulty variant of betting_round_complete: equal bets suffice
betting_round_complete_bets_only(ps) ==
    LET in_hand_players == {i \in DOMAIN ps : ps[i].in_hand}
        bets_equal == Cardinality({ps[i].bet : i \in in_hand_players}) <= 1
    IN  IF Cardinality(in_hand_players) <= 1 THEN TRUE
        ELSE bets_equal

\* A faulty variant of betting_round_complete: folded seats are compared too
betting_round_complete_counts_folded(ps) ==
    LET in_hand_players == {i \in DOMAIN ps : ps[i].in_hand}
        all_acted == \A i \in DOMAIN ps : ps[i].made_decision_this_round
        bets_equal == Cardinality({ps[i].bet : i \in DOMAIN ps}) <= 1
    IN  IF Cardinality(in_hand_players) <= 1 THEN TRUE
        ELSE all_acted /\ bets_equal

betting_round_complete(ps) ==
    LET in_hand_players == {i \in DOMAIN ps : ps[i].in_hand}
        all_acted == \A i \in in_hand_players : ps[i].made_decision_this_round
        bets_equal == Cardinality({ps[i].bet : i \in in_hand_players}) <= 1
    IN  IF Cardinality(in_hand_players) <= 1 THEN TRUE
        ELSE all_acted /\ bets_equal

\* A faulty variant of start_new_betting_round: the acted flags survive
start_new_betting_round_keeps_acted(ps) ==
    [i \in DOMAIN ps |-> [ps[i] EXCEPT !.bet = 0,
                                       !.last_action = <<>>]]

start_new_betting_round(ps) ==
    [i \in DOMAIN ps |-> [ps[i] EXCEPT !.bet = 0,
                                       !.made_decision_this_round = FALSE,
                                       !.last_action = <<>>]]

RECURSIVE next_in_hand(_, _, _)
next_in_hand(ps, idx, k) ==
    IF k = 0 THEN idx
    ELSE LET nxt == (idx + 1) % n_seats
         IN  IF ps[nxt].in_hand THEN nxt ELSE next_in_hand(ps, nxt, k - 1)

\* A faulty variant of advance_to_next_in_hand: an in_hand actor keeps the turn
advance_to_next_in_hand_from_self(ps, idx) ==
    IF ps[idx].in_hand THEN idx ELSE next_in_hand(ps, idx, n_seats)

advance_to_next_in_hand(ps, idx) == next_in_hand(ps, idx, n_seats)

reset_players_for_hand(ps) ==
    [i \in DOMAIN ps |-> [ps[i] EXCEPT !.bet = 0,
                                       !.in_hand = TRUE,
                                       !.made_decision_this_round = FALSE,
                                       !.cards = UnknownCards,
                                       !.last_action = <<>>]]

\* A faulty variant of post_blinds: the blinds are not clamped to the stack
post_blinds_unclamped(ps, sb_seat, bb_seat, big_blind) ==
    LET sb == big_blind \div 2
        bb == big_blind
        s1 == [ps EXCEPT ![sb_seat].stack = @ - sb]
        s2 == [s1 EXCEPT ![bb_seat].stack = @ - bb]
        s3 == [s2 EXCEPT ![sb_seat].bet = @ + sb]
        s4 == [s3 EXCEPT ![bb_seat].bet = @ + bb]
    IN  [players |-> s4, paid |-> sb + bb]

\* post_blinds: both amounts are computed before either stack is touched
post_blinds(ps, sb_seat, bb_seat, big_blind) ==
    LET sb == Min(big_blind \div 2, ps[sb_seat].stack)
        bb == Min(big_blind, ps[bb_seat].stack)
        s1 == [ps EXCEPT ![sb_seat].stack = @ - sb]
        s2 == [s1 EXCEPT ![bb_seat].stack = @ - bb]
        s3 == [s2 EXCEPT ![sb_seat].bet = @ + sb]
        s4 == [s3 EXCEPT ![bb_seat].bet = @ + bb]
    IN  [players |-> s4, paid |-> sb + bb]

\* A faulty variant of initial_current_bet: the nominal blind, not what was paid
initial_current_bet_nominal(ps) == big_blind_amount

\* line 225
initial_current_bet(ps) == MaxBetUpTo(ps, n_seats - 1)

\* deal_cards: seat i takes the last two cards of the deck, last first
deal_cards(ps, dk) ==
    [players |-> [i \in DOMAIN ps |->
                    [ps[i] EXCEPT !.cards = <<card_to_str(dk[Len(dk) - 2 * i]),
                                              card_to_str(dk[Len(dk) - 2 * i - 1])>>]],
     deck |-> SubSeq(dk, 1, Len(dk) - 2 * n_seats)]

\* deck.pop() on an empty list raises IndexError.  The three pops of the flop
\* stop at the first that fails and the board is not assigned; `raised` tells
\* the caller that the method did not return.
deal_flop(bd, dk) ==
    IF Len(dk) < 3 THEN [board |-> bd, deck |-> <<>>, raised |-> TRUE]
    ELSE [board |-> <<card_to_str(dk[Len(dk)]), card_to_str(dk[Len(dk) - 1]),
                      card_to_str(dk[Len(dk) - 2])>>,
          deck |-> SubSeq(dk, 1, Len(dk) - 3),
          raised |-> FALSE]

\* A faulty variant of deal_turn: the card stays in the deck
deal_turn_keeps_card(bd, dk) ==
    IF Len(dk) = 0 THEN [board |-> bd, deck |-> dk, raised |-> TRUE]
    ELSE [board |-> Append(bd, card_to_str(dk[Len(dk)])),
          deck |-> dk,
          raised |-> FALSE]

deal_turn(bd, dk) ==
    IF Len(dk) = 0 THEN [board |-> bd, deck |-> dk, raised |-> TRUE]
    ELSE [board |-> Append(bd, card_to_str(dk[Len(dk)])),
          deck |-> SubSeq(dk, 1, Len(dk) - 1),
          raised |-> FALSE]

deal_river(bd, dk) ==
    IF Len(dk) = 0 THEN [board |-> bd, deck |-> dk, raised |-> TRUE]
    ELSE [board |-> Append(bd, card_to_str(dk[Len(dk)])),
          deck |-> SubSeq(dk, 1, Len(dk) - 1),
          raised |-> FALSE]

initiate_showdown(ps) == [i \in DOMAIN ps |-> [ps[i] EXCEPT !.cards_hidden = FALSE]]

\* the labels PokerHand.__init__ writes, in the order it writes them
name_roles(ps, b, sb_seat, bb_seat) ==
    LET a1 == [ps EXCEPT ![b].name = <<b + 1, "Button">>]
        a2 == [a1 EXCEPT ![sb_seat].name = <<sb_seat + 1, "SB">>]
    IN  [a2 EXCEPT ![bb_seat].name = <<bb_seat + 1, "BB">>]

(***************************************************************************)
(* PokerGame.__init__ and PokerGameUI.__init__: the state after            *)
(* construction.  No hand exists yet; the hand's fields hold placeholders  *)
(* until start_hand builds one.                                            *)
(***************************************************************************)
\* no call of ui_raise is waiting for an answer
NoDialog == <<>>

GamePlayer(i) ==
    [name |-> IF i = 0 THEN <<1, "Me">> ELSE <<i + 1, "">>,
     stack |-> InitialStack,
     bet |-> 0,
     made_decision_this_round |-> FALSE,
     in_hand |-> TRUE,
     cards_hidden |-> TRUE,
     cards |-> UnknownCards,
     last_action |-> <<>>]

NoHand ==
    /\ hand_button_pos = 0
    /\ sb_pos = 0
    /\ bb_pos = 0
    /\ current_player_idx = 0
    /\ pot = 0
    /\ board = <<>>
    /\ deck = <<>>
    /\ current_bet = 0
    /\ in_showdown = FALSE

NewGame(seatCounts, blinds) ==
    /\ n_seats \in seatCounts
    /\ big_blind_amount \in blinds
    /\ players = [i \in 0 .. (n_seats - 1) |-> GamePlayer(i)]
    /\ hand_number = 0
    /\ button_pos \in 0 .. (n_seats - 1)
    /\ has_hand = FALSE
    /\ NoHand
    /\ game_running = FALSE
    /\ paused = FALSE
    /\ dialogs = NoDialog

\* no caller has handed the evaluator anything
NotEvaluating ==
    /\ scored = <<>>
    /\ score = NotCalled

Init == NewGame(SeatCounts, BigBlinds) /\ NotEvaluating

(***************************************************************************)
(* PokerGame.start_hand with PokerHand.__init__, and PokerGame.end_hand.   *)
(***************************************************************************)
\* shuffled is the order random.shuffle leaves at line 221: any member of
\* Shuffles
start_hand(shuffled) ==
    /\ LET b == button_pos
           sb_seat == (b + 1) % n_seats
           bb_seat == (b + 2) % n_seats
           named == name_roles(players, b, sb_seat, bb_seat)
           fresh == reset_players_for_hand(named)
           blinds == post_blinds(fresh, sb_seat, bb_seat, big_blind_amount)
           dealt == deal_cards(blinds.players, shuffled)
       IN  /\ hand_button_pos' = b
           /\ sb_pos' = sb_seat
           /\ bb_pos' = bb_seat
           /\ current_player_idx' = (bb_seat + 1) % n_seats
           /\ in_showdown' = FALSE
           /\ pot' = 0 + blinds.paid
           /\ board' = <<>>
           /\ current_bet' = initial_current_bet(blinds.players)
           /\ players' = dealt.players
           /\ deck' = dealt.deck
    /\ has_hand' = TRUE
    /\ hand_number' = hand_number + 1
    /\ UNCHANGED <<n_seats, big_blind_amount, button_pos>>

\* A faulty variant of end_hand: the button stays where it is
end_hand_keeps_button ==
    /\ button_pos' = button_pos
    /\ has_hand' = FALSE
    /\ hand_button_pos' = 0
    /\ sb_pos' = 0
    /\ bb_pos' = 0
    /\ current_player_idx' = 0
    /\ pot' = 0
    /\ board' = <<>>
    /\ deck' = <<>>
    /\ current_bet' = 0
    /\ in_showdown' = FALSE
    /\ UNCHANGED <<n_seats, big_blind_amount, players, hand_number>>

end_hand ==
    /\ button_pos' = (button_pos + 1) % n_seats
    /\ has_hand' = FALSE
    /\ hand_button_pos' = 0
    /\ sb_pos' = 0
    /\ bb_pos' = 0
    /\ current_player_idx' = 0
    /\ pot' = 0
    /\ board' = <<>>
    /\ deck' = <<>>
    /\ current_bet' = 0
    /\ in_showdown' = FALSE
    /\ UNCHANGED <<n_seats, big_blind_amount, players, hand_number>>

(***************************************************************************)
(* PokerGameUI.after_action: the completion check and the street advance.  *)
(***************************************************************************)
\* a dealt street as after_action sees it: the players and the flag untouched
dealt_street(ps, d, sd) ==
    [players |-> ps, board |-> d.board, deck |-> d.deck, in_showdown |-> sd,
     raised |-> d.raised]

\* lines 540-548: the street the board length selects
advance_street(ps, bd, dk, sd) ==
    IF Len(bd) = 0 THEN dealt_street(ps, deal_flop(bd, dk), sd)
    ELSE IF Len(bd) = 3 THEN dealt_street(ps, deal_turn(bd, dk), sd)
    ELSE IF Len(bd) = 4 THEN dealt_street(ps, deal_river(bd, dk), sd)
    ELSE [players |-> initiate_showdown(ps), board |-> bd,
          deck |-> dk, in_showdown |-> TRUE, raised |-> FALSE]

\* line 550, on what lines 540-548 leave; an IndexError out of the deal ends
\* after_action before line 550
new_round(street, cb) ==
    IF street.raised
    THEN [players |-> street.players, board |-> street.board,
          deck |-> street.deck, current_bet |-> cb,
          in_showdown |-> street.in_showdown, raised |-> TRUE]
    ELSE [players |-> start_new_betting_round(street.players),
          board |-> street.board, deck |-> street.deck,
          current_bet |-> 0, in_showdown |-> street.in_showdown,
          raised |-> FALSE]

\* A faulty variant of after_action: entering showdown without the reset
after_action_showdown_keeps_bets(ps, bd, dk, cb, sd) ==
    IF betting_round_complete(ps)
    THEN IF Len(bd) = 5
         THEN [players |-> initiate_showdown(ps), board |-> bd, deck |-> dk,
               current_bet |-> cb, in_showdown |-> TRUE, raised |-> FALSE]
         ELSE new_round(advance_street(ps, bd, dk, sd), cb)
    ELSE [players |-> ps, board |-> bd, deck |-> dk,
          current_bet |-> cb, in_showdown |-> sd, raised |-> FALSE]

after_action(ps, bd, dk, cb, sd) ==
    IF betting_round_complete(ps)
    THEN new_round(advance_street(ps, bd, dk, sd), cb)
    ELSE [players |-> ps, board |-> bd, deck |-> dk,
          current_bet |-> cb, in_showdown |-> sd, raised |-> FALSE]

(***************************************************************************)
(* The engine called method by method, by any caller, in any order.        *)
(***************************************************************************)
\* the call's writes
TakeOutcome(r) ==
    /\ players' = r.players
    /\ current_bet' = r.current_bet
    /\ pot' = r.pot

ApplyAction(seat_idx, action, raise_to) ==
    /\ has_hand
    /\ TakeOutcome(apply_action(players, current_bet, pot, seat_idx, action,
                                raise_to))
    /\ UNCHANGED <<n_seats, big_blind_amount, hand_number, button_pos, has_hand>>
    /\ UNCHANGED <<hand_button_pos, sb_pos, bb_pos, current_player_idx, board,
                   deck, in_showdown>>

AdvanceToNextInHand ==
    /\ has_hand
    /\ current_player_idx' = advance_to_next_in_hand(players, current_player_idx)
    /\ UNCHANGED gameVars
    /\ UNCHANGED <<hand_button_pos, sb_pos, bb_pos, pot, board, deck, current_bet,
                   in_showdown>>

\* after_action's writes
TakeStreet(a) ==
    /\ players' = a.players
    /\ board' = a.board
    /\ deck' = a.deck
    /\ current_bet' = a.current_bet
    /\ in_showdown' = a.in_showdown

AfterAction ==
    /\ has_hand
    /\ TakeStreet(after_action(players, board, deck, current_bet, in_showdown))
    /\ UNCHANGED <<n_seats, big_blind_amount, hand_number, button_pos, has_hand>>
    /\ UNCHANGED <<hand_button_pos, sb_pos, bb_pos, current_player_idx, pot>>

\* the session is followed for MaxHands hands, each dealt from a sampled order
StartHand ==
    /\ hand_number < MaxHands
    /\ \E shuffled \in SampledShuffles :
         start_hand(shuffled) /\ UNCHANGED <<uiVars, evalVars>>

EndHand == end_hand /\ UNCHANGED <<uiVars, evalVars>>

\* raise_to is read by the raise branch alone
Act ==
    \E seat_idx \in Seats, action \in ActionKinds :
        \E raise_to \in IF action = "raise" THEN RaiseAmounts \cup {NoAmount}
                         ELSE {NoAmount} :
            ApplyAction(seat_idx, action, raise_to) /\ UNCHANGED <<uiVars, evalVars>>

Turn == AdvanceToNextInHand /\ UNCHANGED <<uiVars, evalVars>>

Street == AfterAction /\ UNCHANGED <<uiVars, evalVars>>

Next == StartHand \/ EndHand \/ Act \/ Turn \/ Street

Spec == Init /\ [][Next]_vars

(***************************************************************************)
(* The buttons of PokerGameUI.  ui_check_call and ui_fold run to           *)
(* completion: the action of the current player, the turn advance and      *)
(* after_action.  ui_raise reads the hand, the current player and the      *)
(* current bet, and then waits in askinteger, whose dialog runs the event  *)
(* loop (wait_visibility, then wait_window): callbacks of the other        *)
(* buttons that run meanwhile land between the two halves of the handler.  *)
(* One of them may be ui_raise again: its dialog opens inside the event    *)
(* loop of the one before, and it returns first.  The model follows up to  *)
(* MaxDialogs calls of ui_raise waiting inside one another.                *)
(***************************************************************************)
\* the handler's last two calls, after apply_action has left r
ui_finish(r) ==
    /\ current_player_idx' =
           advance_to_next_in_hand(r.players, current_player_idx)
    /\ pot' = r.pot
    /\ TakeStreet(after_action(r.players, board, deck, r.current_bet, in_showdown))

\* apply_action for the seat the handler read, then the turn advance and
\* after_action on the hand as it is now
ui_apply_seat(seat_idx, action, raise_to) ==
    /\ ui_finish(apply_action(players, current_bet, pot, seat_idx,
                              action, raise_to))
    /\ UNCHANGED <<n_seats, big_blind_amount, hand_number, button_pos, has_hand>>
    /\ UNCHANGED <<hand_button_pos, sb_pos, bb_pos>>
    /\ UNCHANGED evalVars

ui_apply(action, raise_to) ==
    /\ ui_apply_seat(current_player_idx, action, raise_to)
    /\ UNCHANGED uiVars

\* lines 814-819: the guard, the reads of current_player_idx and of
\* current_bet (minvalue), and the entry into askinteger
ui_raise ==
    IF ~has_hand \/ in_showdown THEN UNCHANGED vars
    ELSE /\ Len(dialogs) < MaxDialogs
         /\ dialogs' = Append(dialogs, [seat |-> current_player_idx,
                                        minvalue |-> current_bet,
                                        detached |-> FALSE])
         /\ UNCHANGED <<gameVars, handVars, game_running, paused, evalVars>>

\* the hand ui_raise read was replaced while it waited: apply_action and
\* advance_to_next_in_hand write to the old game's objects, which nothing
\* shows any more, and after_action runs on self.game.hand
ui_raise_on_replaced_hand ==
    IF ~has_hand THEN UNCHANGED <<gameVars, handVars>>
    ELSE /\ TakeStreet(after_action(players, board, deck, current_bet,
                                    in_showdown))
         /\ UNCHANGED <<n_seats, big_blind_amount, hand_number, button_pos,
                        has_hand>>
         /\ UNCHANGED <<hand_button_pos, sb_pos, bb_pos, current_player_idx, pot>>

\* lines 819-829: the innermost askinteger yields None (cancelled) or a number
\* >= minvalue, and the raise is applied to the seat its caller read before
\* the wait; the calls around it go on waiting
askinteger_returns ==
    /\ dialogs # NoDialog
    /\ dialogs' = SubSeq(dialogs, 1, Len(dialogs) - 1)
    /\ UNCHANGED <<game_running, paused>>
    /\ LET dialog == dialogs[Len(dialogs)]
       IN  \E raise_to \in UIRaiseAmounts \cup {NoAmount} :
             IF raise_to = NoAmount
             THEN UNCHANGED <<gameVars, handVars, evalVars>>
             ELSE /\ raise_to >= dialog.minvalue
                  /\ IF dialog.detached
                     THEN ui_raise_on_replaced_hand /\ UNCHANGED evalVars
                     ELSE ui_apply_seat(dialog.seat, "raise", raise_to)

ui_check_call ==
    IF ~has_hand \/ in_showdown THEN UNCHANGED vars
    ELSE ui_apply("check", NoAmount)

ui_fold ==
    IF ~has_hand \/ in_showdown THEN UNCHANGED vars
    ELSE ui_apply("fold", NoAmount)

start_game(shuffled) ==
    /\ ~game_running /\ ~paused
    /\ game_running' = TRUE
    /\ paused' = paused
    /\ dialogs' = dialogs
    /\ start_hand(shuffled)
    /\ UNCHANGED evalVars

pause_game ==
    /\ ~(~game_running /\ ~paused) /\ ~paused
    /\ game_running' = FALSE
    /\ paused' = TRUE
    /\ dialogs' = dialogs
    /\ UNCHANGED <<gameVars, handVars, evalVars>>

resume_game ==
    /\ paused
    /\ game_running' = TRUE
    /\ paused' = FALSE
    /\ dialogs' = dialogs
    /\ UNCHANGED <<gameVars, handVars, evalVars>>

toggle_game(shuffled) == start_game(shuffled) \/ resume_game \/ pause_game

\* the button pressed, the hand it may start dealt from a sampled order
StartGame == \E shuffled \in SampledShuffles : start_game(shuffled)

ToggleGame == \E shuffled \in SampledShuffles : toggle_game(shuffled)

reset_game ==
    /\ n_seats' = n_seats
    /\ big_blind_amount' = big_blind_amount
    /\ players' = [i \in Seats |-> GamePlayer(i)]
    /\ hand_number' = 0
    /\ button_pos' \in Seats
    /\ has_hand' = FALSE
    /\ hand_button_pos' = 0
    /\ sb_pos' = 0
    /\ bb_pos' = 0
    /\ current_player_idx' = 0
    /\ pot' = 0
    /\ board' = <<>>
    /\ deck' = <<>>
    /\ current_bet' = 0
    /\ in_showdown' = FALSE
    /\ game_running' = FALSE
    /\ paused' = FALSE
    /\ dialogs' = [k \in DOMAIN dialogs |-> [dialogs[k] EXCEPT !.detached = TRUE]]
    /\ UNCHANGED evalVars

DriverInit == NewGame(UISeatCounts, {UIBigBlind}) /\ NotEvaluating

DriverNext ==
    \/ ToggleGame
    \/ ui_raise
    \/ askinteger_returns
    \/ ui_check_call
    \/ ui_fold
    \/ reset_game

DriverSpec == DriverInit /\ [][DriverNext]_vars

(***************************************************************************)
(* A full table played passively: PokerGame.__init__ takes any seat count, *)
(* here one for which 2 * seats + 5 exceeds the deck; every seat checks or *)
(* calls in turn.  deal_cards itself is modelled for seat counts whose     *)
(* hole cards fit the deck.                                                *)
(***************************************************************************)
LongSeatCounts == {24}

LongTableInit == NewGame(LongSeatCounts, {UIBigBlind}) /\ NotEvaluating

LongTableNext == StartGame \/ ui_check_call

LongTableSpec == LongTableInit /\ [][LongTableNext]_vars

(***************************************************************************)
(* The table of the end-to-end scenario: PokerGameUI with four seats,      *)
(* started once, whose seats check, call or fold in turn.                  *)
(***************************************************************************)
ScenarioSeatCounts == {4}

ScenarioInit == NewGame(ScenarioSeatCounts, {UIBigBlind}) /\ NotEvaluating

ScenarioNext == StartGame \/ ui_check_call \/ ui_fold

ScenarioSpec == ScenarioInit /\ [][ScenarioNext]_vars

(***************************************************************************)
(* The engine on small tables: PokerGame.__init__ takes any seat count.    *)
(* With two seats the big blind sits on the button; with one seat button,  *)
(* small blind and big blind are all seat 0.  The big blind here is larger *)
(* than a starting stack.                                                  *)
(***************************************************************************)
SmallSeatCounts == {1, 2, 3}

SmallBlinds == {2000}

SmallTableInit == NewGame(SmallSeatCounts, SmallBlinds) /\ NotEvaluating

SmallTableSpec == SmallTableInit /\ [][Next]_vars

(***************************************************************************)
(* A session of several hands played through the table's handlers by      *)
(* seats that only call, check or fold: the caller starts a hand when none *)
(* is active, the handlers apply the current actor's action, advance the   *)
(* turn and run after_action, and the caller ends the hand once it has     *)
(* reached showdown, which rotates the button, before starting the next    *)
(* one.  Stacks carry over from hand to hand.                              *)
(***************************************************************************)
SessionSeatCounts == {4}

SessionBlinds == {1000}

SessionInit == NewGame(SessionSeatCounts, SessionBlinds) /\ NotEvaluating

NextHand == ~has_hand /\ StartHand

CloseHand == has_hand /\ in_showdown /\ EndHand

SessionNext == NextHand \/ CloseHand \/ ui_check_call \/ ui_fold

SessionSpec == SessionInit /\ [][SessionNext]_vars

(***************************************************************************)
(* The evaluator called on its own, as the worked cases at the end of the  *)
(* file call it: a list of card strings is parsed and scored, then the     *)
(* same cards are scored again in another order.  No session is involved;  *)
(* the session variables rest at a construction nobody reads.              *)
(***************************************************************************)
EvalDeck == {7, 8, 20, 21, 26, 27, 28, 29, 34, 35, 36, 37, 38, 46, 47}
HandSizes == {0, 4, 5, 6}

\* the identities of S, smallest first
RECURSIVE ascending(_)
ascending(S) ==
    IF S = {} THEN <<>>
    ELSE LET m == CHOOSE x \in S : \A y \in S : x <= y
         IN  <<m>> \o ascending(S \ {m})

card_strs(ids) == [i \in DOMAIN ids |-> card_to_str(ids[i])]

EvalHands ==
    {card_strs(ascending(S)) :
        S \in {T \in SUBSET EvalDeck : Cardinality(T) \in HandSizes}}

swap(xs, i, j) == [xs EXCEPT ![i] = xs[j], ![j] = xs[i]]

EvalInit ==
    /\ NewGame(SeatCounts, BigBlinds)
    /\ button_pos = 0
    /\ scored \in EvalHands
    /\ score = NotCalled

\* the first call on the list
ScoreFive ==
    /\ score = NotCalled
    /\ score' = score_five(parse_cards(scored))
    /\ UNCHANGED <<scored, gameVars, handVars, uiVars>>

\* the cards scored before, two neighbours exchanged, scored again; the
\* orders are enumerated for the lists the first call returned a value for
ScoreReordered ==
    /\ score.returned = "tuple"
    /\ \E i \in 1 .. (Len(scored) - 1) :
         /\ scored' = swap(scored, i, i + 1)
         /\ score' = score_five(parse_cards(scored'))
    /\ UNCHANGED <<gameVars, handVars, uiVars>>

EvalNext == ScoreFive \/ ScoreReordered

EvalSpec == EvalInit /\ [][EvalNext]_vars

(***************************************************************************)
(* Properties.                                                             *)
(***************************************************************************)
InHandSeats == {i \in Seats : players[i].in_hand}

Acted(i) == players[i].made_decision_this_round

HandStarts == hand_number' # hand_number

AnyAmount == RaiseAmounts \cup {NoAmount}

\* C1: chips are conserved within a hand: start_hand moves the blinds from
\* the stacks into the pot, and every later step of the same hand keeps
\* (sum of stacks + pot) what it was.
C1_ChipConservation ==
    [][has_hand' =>
         IF HandStarts
         THEN SumStacks(players') + pot' = SumStacks(players)
         ELSE SumStacks(players') + pot' = SumStacks(players) + pot]_vars

\* C1 witness: a flop reached in a hand whose pot holds more than the blinds.
C1_Witness ==
    /\ has_hand
    /\ Len(board) = 3
    /\ pot > big_blind_amount + (big_blind_amount \div 2)

\* C2 (as claimed): apply_action for an in_hand seat that is not the current
\* actor changes no player record, nor the pot, nor current_bet.
C2_OutOfTurnIsNoOp ==
    [][\A seat_idx \in Seats, action \in ActionKinds, raise_to \in AnyAmount :
          (/\ players[seat_idx].in_hand
           /\ seat_idx # current_player_idx
           /\ ApplyAction(seat_idx, action, raise_to))
          => UNCHANGED <<players, pot, current_bet>>]_vars

\* C3 (as claimed): while a hand has an in_hand player, current_bet is the
\* largest bet among the in_hand players.
C3_CurrentBetIsMaxInHandBet ==
    (has_hand /\ InHandSeats # {}) =>
        /\ \E i \in InHandSeats : players[i].bet = current_bet
        /\ \A i \in InHandSeats : players[i].bet <= current_bet

\* no seat, folded or not, has bet more than current_bet
NoBetAboveCurrentBet ==
    has_hand => \A i \in Seats : players[i].bet <= current_bet

\* some seat, folded or not, holds current_bet
SomeBetIsCurrentBet == \E i \in Seats : players[i].bet = current_bet

\* a step that starts a hand or changes current_bet leaves it at a seat's bet
CurrentBetSetToABet ==
    (has_hand' /\ (HandStarts \/ current_bet' # current_bet)) =>
        SomeBetIsCurrentBet'

\* the blinds of the hand are posted by two seats
BlindsOnTwoSeats == has_hand /\ sb_pos # bb_pos

\* C3 (amended): no seat of a hand, folded or not, has bet more than
\* current_bet, and every step that sets current_bet (the blinds, a raise, a
\* street advance) sets it to the largest bet among all seats; in a hand whose
\* blinds are posted by two seats current_bet is the largest bet among all
\* seats, folded seats included, in every state.
C3_CurrentBetIsHighestBet ==
    /\ [](NoBetAboveCurrentBet /\ (BlindsOnTwoSeats => SomeBetIsCurrentBet))
    /\ [][CurrentBetSetToABet]_vars

\* C3 witness: a seat all-in for less than current_bet beside a folded seat.
C3_Witness ==
    /\ has_hand
    /\ \E i \in InHandSeats :
         players[i].stack = 0 /\ 0 < players[i].bet /\ players[i].bet < current_bet
    /\ \E j \in Seats : ~players[j].in_hand

\* What a raise by seat_idx must leave: r is the outcome of the call.
RaiseOutcomeReopens(seat_idx, r) ==
    IF r.players[seat_idx].bet > current_bet
    THEN /\ r.current_bet = r.players[seat_idx].bet
         /\ r.players[seat_idx].made_decision_this_round
         /\ \A o \in Seats \ {seat_idx} :
              players[o].in_hand => ~r.players[o].made_decision_this_round
    ELSE /\ r.current_bet = current_bet
         /\ \A o \in Seats \ {seat_idx} :
              r.players[o].made_decision_this_round
                  = players[o].made_decision_this_round

\* C4: a raise that lifts the raiser's bet above current_bet makes that bet
\* current_bet, clears the acted flag of every other in_hand seat and sets the
\* raiser's; a raise that does not leaves current_bet and the others' flags.
\* Stated of the raise every in_hand seat can make in every state of a hand,
\* each of which is a step of Act.
C4_RaiseReopensRound ==
    has_hand =>
        \A seat_idx \in InHandSeats, raise_to \in AnyAmount :
            RaiseOutcomeReopens(seat_idx,
                apply_action(players, current_bet, pot, seat_idx, "raise",
                             raise_to))

\* C4 witness: a raiser holding current_bet beside an in_hand seat that had
\* checked and whose acted flag is cleared again.
C4_Witness ==
    /\ has_hand
    /\ current_bet > 0
    /\ \E r \in InHandSeats, o \in InHandSeats :
         /\ r # o
         /\ players[r].last_action = <<"RAISE", current_bet>>
         /\ Acted(r)
         /\ players[o].last_action = <<"CHECK">>
         /\ ~Acted(o)

\* C5: the round is complete exactly when at most one seat is in_hand, or
\* every in_hand seat has acted and any two in_hand seats have the same bet.
C5_RoundCompleteIff ==
    betting_round_complete(players) <=>
        \/ \A i \in InHandSeats, j \in InHandSeats : i = j
        \/ /\ \A i \in InHandSeats : Acted(i)
           /\ \A i \in InHandSeats, j \in InHandSeats :
                players[i].bet = players[j].bet

\* C5 witness: a complete round of two or more in_hand seats beside a folded
\* seat whose bet differs from theirs.
C5_Witness ==
    /\ has_hand
    /\ betting_round_complete(players)
    /\ Cardinality(InHandSeats) >= 2
    /\ \E f \in Seats \ InHandSeats, i \in InHandSeats :
         players[f].bet # players[i].bet

BettingStateKept(i) ==
    /\ players'[i].bet = players[i].bet
    /\ players'[i].made_decision_this_round = players[i].made_decision_this_round

BettingStateReset(i) ==
    /\ players'[i].bet = 0
    /\ ~players'[i].made_decision_this_round

ChipsAndSeatKept(i) ==
    /\ players'[i].stack = players[i].stack
    /\ players'[i].in_hand = players[i].in_hand

EntersShowdown == has_hand /\ ~in_showdown /\ in_showdown'

\* C6 (as claimed): the step that enters showdown leaves every bet, every
\* acted flag and current_bet as they were.
C6_ShowdownKeepsBettingState ==
    [][EntersShowdown =>
         /\ \A i \in Seats : BettingStateKept(i)
         /\ current_bet' = current_bet]_vars

\* C6 (amended): the step that enters showdown resets the betting state as a
\* street deal does (every bet 0, every acted flag false, current_bet 0), sets
\* the showdown flag and reveals every seat's hole cards; the pot, the board,
\* the stacks and the in_hand flags are left alone.
C6_ShowdownResetsBettingState ==
    [][EntersShowdown =>
         /\ Len(board) = 5
         /\ \A i \in Seats :
              /\ BettingStateReset(i)
              /\ ChipsAndSeatKept(i)
              /\ ~players'[i].cards_hidden
         /\ current_bet' = 0
         /\ pot' = pot
         /\ board' = board]_vars

\* C6 witness: showdown entered by two or more in_hand seats, one all-in.
C6_Witness ==
    /\ has_hand
    /\ in_showdown
    /\ current_bet = 0
    /\ \E i \in InHandSeats : players[i].stack = 0
    /\ \A i \in Seats : players[i].bet = 0 /\ ~Acted(i) /\ ~players[i].cards_hidden
    /\ Cardinality(InHandSeats) >= 2

\* C7 (as claimed): end_hand credits the whole pot of the ended hand to the
\* stacks.
C7_EndHandCreditsPot ==
    [][(has_hand /\ ~has_hand') =>
         SumStacks(players') = SumStacks(players) + pot]_vars

\* C9: start_hand takes the small blind from seat (b+1) mod n and the big
\* blind from seat (b+2) mod n, each clamped to the seat's stack and moved to
\* its bet; the pot is the two payments, every other seat has bet 0 and its
\* stack untouched, and the first actor is seat (b+3) mod n.
C9_BlindPosting ==
    [][(HandStarts /\ has_hand') =>
         LET b == button_pos
             sb_seat == (b + 1) % n_seats
             bb_seat == (b + 2) % n_seats
             sb == Min(big_blind_amount \div 2, players[sb_seat].stack)
             bb == Min(big_blind_amount, players[bb_seat].stack)
         IN  /\ sb_pos' = sb_seat
             /\ bb_pos' = bb_seat
             /\ current_player_idx' = (b + 3) % n_seats
             /\ n_seats >= 3 =>
                    Cardinality({sb_seat, bb_seat, (b + 3) % n_seats}) = 3
             /\ players'[sb_seat].bet = sb
             /\ players'[sb_seat].stack = players[sb_seat].stack - sb
             /\ players'[bb_seat].bet = bb
             /\ players'[bb_seat].stack = players[bb_seat].stack - bb
             /\ pot' = sb + bb
             /\ \A i \in Seats \ {sb_seat, bb_seat} :
                  players'[i].bet = 0 /\ players'[i].stack = players[i].stack]_vars

\* C9 witness: a hand just started whose big blind seat is all-in for less
\* than the blind and whose small blind seat paid the full small blind.
C9_Witness ==
    /\ has_hand
    /\ board = <<>>
    /\ \A i \in Seats : ~Acted(i) /\ players[i].in_hand
    /\ players[bb_pos].stack = 0
    /\ 0 < players[bb_pos].bet
    /\ players[bb_pos].bet < big_blind_amount
    /\ players[sb_pos].bet = big_blind_amount \div 2
    /\ pot = players[bb_pos].bet + players[sb_pos].bet

DealsStreet == has_hand /\ has_hand' /\ ~HandStarts /\ board' # board

\* C10: a street advance that deals the flop, the turn or the river sets every
\* bet to 0, every acted flag to false and current_bet to 0, and leaves the
\* pot, every stack and every in_hand flag as they were.
C10_StreetDealResets ==
    [][DealsStreet =>
         /\ Len(board') \in {3, 4, 5}
         /\ \A i \in Seats : BettingStateReset(i) /\ ChipsAndSeatKept(i)
         /\ current_bet' = 0
         /\ pot' = pot]_vars

\* C10 witness: a turn card dealt with a folded seat at the table and chips
\* in the pot.
C10_Witness ==
    /\ has_hand
    /\ Len(board) = 4
    /\ pot > 0
    /\ current_bet = 0
    /\ \A i \in Seats : players[i].bet = 0 /\ ~Acted(i)
    /\ \E i \in Seats : ~players[i].in_hand

(***************************************************************************)
(* The pre-flop scenario of C8: four seats, big blind 50, button at seat 0, *)
(* every seat still in the hand.  Tuples list seats 0 to 3.                *)
(***************************************************************************)
Table(actor, stacks, bets, acted, pt, cb, boardLen) ==
    /\ n_seats = 4
    /\ big_blind_amount = 50
    /\ has_hand
    /\ hand_button_pos = 0
    /\ ~in_showdown
    /\ current_player_idx = actor
    /\ \A i \in Seats :
         /\ players[i].in_hand
         /\ players[i].stack = stacks[i + 1]
         /\ players[i].bet = bets[i + 1]
         /\ players[i].made_decision_this_round = acted[i + 1]
    /\ pot = pt
    /\ current_bet = cb
    /\ Len(board) = boardLen

BlindsPosted ==
    Table(3, <<1500, 1475, 1450, 1500>>, <<0, 25, 50, 0>>,
          <<FALSE, FALSE, FALSE, FALSE>>, 75, 50, 0)

Seat3Called ==
    Table(0, <<1500, 1475, 1450, 1450>>, <<0, 25, 50, 50>>,
          <<FALSE, FALSE, FALSE, TRUE>>, 125, 50, 0)

Seat0Called ==
    Table(1, <<1450, 1475, 1450, 1450>>, <<50, 25, 50, 50>>,
          <<TRUE, FALSE, FALSE, TRUE>>, 175, 50, 0)

Seat1Called ==
    Table(2, <<1450, 1450, 1450, 1450>>, <<50, 50, 50, 50>>,
          <<TRUE, TRUE, FALSE, TRUE>>, 200, 50, 0)

FlopDealt ==
    \E actor \in Seats :
        Table(actor, <<1450, 1450, 1450, 1450>>, <<0, 0, 0, 0>>,
              <<FALSE, FALSE, FALSE, FALSE>>, 200, 0, 3)

ScenarioUpToSeat0 ==
    /\ (StartGame /\ n_seats = 4 /\ button_pos = 0) => BlindsPosted'
    /\ (BlindsPosted /\ ui_check_call) => Seat3Called'
    /\ (Seat3Called /\ ui_check_call) => Seat0Called'

\* C8 (as claimed): after the blinds, the calls of seats 3, 0 and 1 bring the
\* pot to 125, 175 and 200, and the call of seat 1 completes the round, so
\* that the flop is dealt with every bet 0, every acted flag false and
\* current_bet 0.
C8_FlopAfterSeat1Calls ==
    [][/\ ScenarioUpToSeat0
       /\ (Seat0Called /\ ui_check_call) => FlopDealt']_vars

\* C8 (amended): after the blinds, the calls of seats 3, 0 and 1 bring the pot
\* to 125, 175 and 200; the round is then not complete, because the big blind
\* seat 2 has not acted; the check of seat 2 completes it, and the flop is
\* dealt with every bet 0, every acted flag false, current_bet 0 and pot 200.
C8_FlopAfterBigBlindChecks ==
    [][/\ ScenarioUpToSeat0
       /\ (Seat0Called /\ ui_check_call) =>
              (Seat1Called' /\ ~betting_round_complete(players'))
       /\ (Seat1Called /\ ui_check_call) =>
              (FlopDealt' /\ current_player_idx' = 3)]_vars

\* C8 witness: the flop of that hand, four seats in, 50 paid by each.
C8_Witness == FlopDealt

(***************************************************************************)
(* Properties of the evaluator.                                            *)
(***************************************************************************)
RankOf(card) == 1 + CHOOSE k \in 1 .. 13 : RANKS[k] = card[1]

RankSet == {RankOf(scored[i]) : i \in DOMAIN scored}

SuitSet == {scored[i][2] : i \in DOMAIN scored}

TimesHeld(r) == Cardinality({i \in DOMAIN scored : RankOf(scored[i]) = r})

RanksHeld(n) == {r \in RankSet : TimesHeld(r) = n}

IsFlush == Cardinality(SuitSet) = 1

IsStraight ==
    \/ \E top \in 6 .. 14 : RankSet = (top - 4) .. top
    \/ RankSet = {14, 2, 3, 4, 5}

\* the highest-precedence hand type the five cards of `scored` form
HandType ==
    IF IsFlush /\ RankSet = 10 .. 14 THEN 9
    ELSE IF IsFlush /\ IsStraight THEN 8
    ELSE IF RanksHeld(4) # {} THEN 7
    ELSE IF RanksHeld(3) # {} /\ RanksHeld(2) # {} THEN 6
    ELSE IF IsFlush THEN 5
    ELSE IF IsStraight THEN 4
    ELSE IF RanksHeld(3) # {} THEN 3
    ELSE IF Cardinality(RanksHeld(2)) = 2 THEN 2
    ELSE IF RanksHeld(2) # {} THEN 1
    ELSE 0

Scored == score # NotCalled

\* C11: for five distinct cards score_five returns a pair whose category is
\* the highest-precedence hand type the cards form: 9 royal flush, 8 straight
\* flush, 7 four of a kind, 6 full house, 5 flush, 4 straight (the wheel
\* included), 3 three of a kind, 2 two pair, 1 one pair, 0 high card.
C11_CategoryIsHandType ==
    (Scored /\ Len(scored) = 5) =>
        /\ score.returned = "tuple"
        /\ score.category = HandType

\* C11 witness: the wheel in one suit, scored a straight flush that is not
\* royal, in an order other than the one first scored.
C11_Witness ==
    /\ Len(scored) = 5
    /\ RankSet = {14, 2, 3, 4, 5}
    /\ scored[1] = <<"A", "h">>
    /\ score.category = 8
    /\ score.tiebreak = << <<5>> >>

\* C12 (as claimed): a full house is scored with the tiebreak (trips rank,
\* pair rank), whichever of the two ranks is the higher.
C12_FullHouseTiebreak ==
    (Scored /\ score.category = 6) =>
        \E t \in RanksHeld(3), p \in RanksHeld(2) :
            score.tiebreak = << <<t>>, <<p>> >>

\* C13 (as claimed): a two-pair hand is scored with the tiebreak (higher pair
\* rank, lower pair rank, kicker rank), three ranks.
C13_TwoPairTiebreak ==
    (Scored /\ score.category = 2) =>
        \E hi \in RanksHeld(2), lo \in RanksHeld(2), k \in RanksHeld(1) :
            /\ hi > lo
            /\ score.tiebreak = << <<hi>>, <<lo>>, <<k>> >>

SameCards ==
    /\ Len(scored') = Len(scored)
    /\ {scored'[i] : i \in DOMAIN scored'} = {scored[i] : i \in DOMAIN scored}

\* C14: scoring the same five cards in another order returns the identical
\* (category, tiebreak).
C14_PermutationInvariant ==
    [][(Scored /\ Len(scored) = 5 /\ SameCards /\ scored' # scored)
          => score' = score]_vars

\* C14 witness: a flush scored with its highest card handed over last and
\* its lowest first but one.
C14_Witness ==
    /\ Len(scored) = 5
    /\ scored[5] = <<"K", "h">>
    /\ scored[2] = <<"2", "h">>
    /\ scored[1] = <<"J", "h">>
    /\ score.category = 5
    /\ score.tiebreak[1] = <<13>>

\* C15 (as claimed): a call with a number of cards other than 5 ends in the
\* error InvalidHandSize.
C15_InvalidHandSize ==
    (Scored /\ Len(scored) # 5) => score.returned = "InvalidHandSize"

(***************************************************************************)
(* Properties of the deck, of ignored and clamped calls, of the button.    *)
(***************************************************************************)
HoleCards == {players[i].cards[k] : i \in Seats, k \in 1 .. 2}

BoardCards == {board[i] : i \in DOMAIN board}

DeckCards == {card_to_str(deck[i]) : i \in DOMAIN deck}

\* every identity of the deck, converted
AllCards == {card_to_str(card_id) : card_id \in 0 .. (DeckSize - 1)}

\* C16: card_to_str gives the 52 identities 52 different cards; within a hand
\* the hole cards of all seats and the board cards are pairwise distinct, the
\* remaining deck repeats no card and holds none of them, together they are
\* the 52 cards, and after k cards have been dealt 52 - k cards remain.
C16_NoCardDealtTwice ==
    has_hand =>
        /\ Cardinality(AllCards) = DeckSize
        /\ HoleCards \cup BoardCards \cup DeckCards = AllCards
        /\ Cardinality(HoleCards) = 2 * n_seats
        /\ Cardinality(BoardCards) = Len(board)
        /\ HoleCards \cap BoardCards = {}
        /\ Cardinality(DeckCards) = Len(deck)
        /\ DeckCards \cap (HoleCards \cup BoardCards) = {}
        /\ Len(deck) = DeckSize - (2 * n_seats + Len(board))

\* C16 witness: the river dealt beside the hole cards of every seat.
C16_Witness ==
    /\ has_hand
    /\ Len(board) = 5
    /\ Len(deck) = DeckSize - 2 * n_seats - 5
    /\ \A i \in Seats : players[i].cards # UnknownCards

\* the call changed nothing: r is its outcome
ChangesNothing(r) ==
    /\ r.players = players
    /\ r.current_bet = current_bet
    /\ r.pot = pot

IgnoredCallsChangeNothing ==
    /\ \A seat_idx \in Seats \ InHandSeats, action \in ActionKinds,
          raise_to \in AnyAmount :
         ChangesNothing(apply_action(players, current_bet, pot, seat_idx,
                                     action, raise_to))
    /\ \A seat_idx \in Seats :
         ChangesNothing(apply_action(players, current_bet, pot, seat_idx,
                                     "raise", NoAmount))

\* ps is what a call left of the players: no folded seat is back in_hand
FoldedStayOut(ps) == \A i \in Seats : ~players[i].in_hand => ~ps[i].in_hand

\* the calls a hand takes between start_hand and end_hand
NoCallRevivesFolded ==
    /\ \A seat_idx \in Seats, action \in ActionKinds, raise_to \in AnyAmount :
         FoldedStayOut(apply_action(players, current_bet, pot, seat_idx,
                                    action, raise_to).players)
    /\ FoldedStayOut(after_action(players, board, deck, current_bet,
                                  in_showdown).players)

\* C17: apply_action for a seat that is not in_hand, whatever the action, and
\* a raise with no amount by any seat leave every player record, the pot and
\* current_bet as they were; and no call made within a hand turns a folded
\* seat in_hand again.  Stated of the calls every state of a hand admits,
\* each of which is a step of Act or Street.
C17_IgnoredCallsAreNoOps ==
    has_hand => (IgnoredCallsChangeNothing /\ NoCallRevivesFolded)

\* C17 witness: a seat folded on an earlier street, still out on the flop or
\* later while two others play on.
C17_Witness ==
    /\ has_hand
    /\ Len(board) >= 3
    /\ \E i \in Seats : ~players[i].in_hand /\ players[i].last_action = <<>>
    /\ Cardinality(InHandSeats) >= 2

\* the two outcomes agree on every stack, bet and acted flag, the pot and
\* current_bet
SameBetting(r, c) ==
    /\ r.pot = c.pot
    /\ r.current_bet = c.current_bet
    /\ \A i \in Seats :
         /\ r.players[i].stack = c.players[i].stack
         /\ r.players[i].bet = c.players[i].bet
         /\ r.players[i].made_decision_this_round
                = c.players[i].made_decision_this_round
         /\ r.players[i].in_hand = c.players[i].in_hand

\* the raise was carried out: the seat has acted and wears the RAISE label
RaiseTaken(seat_idx, r) ==
    /\ r.players[seat_idx].made_decision_this_round
    /\ r.players[seat_idx].last_action = <<"RAISE", r.players[seat_idx].bet>>

\* C18: a raise to an amount below current_bet is carried out, clamped up to
\* current_bet: it leaves stacks, bets, acted flags, pot and current_bet as a
\* check/call by the same seat would, the label alone differing.
C18_LowRaiseIsCall ==
    has_hand =>
        \A seat_idx \in Seats, raise_to \in RaiseAmounts :
            raise_to < current_bet =>
                /\ SameBetting(
                       apply_action(players, current_bet, pot, seat_idx,
                                    "raise", raise_to),
                       apply_action(players, current_bet, pot, seat_idx,
                                    "check", NoAmount))
                /\ players[seat_idx].in_hand =>
                       RaiseTaken(seat_idx,
                           apply_action(players, current_bet, pot, seat_idx,
                                        "raise", raise_to))

\* C18 witness: before the flop a seat wears the label of a raise to exactly
\* the big blind, which no requested amount reaches.
C18_Witness ==
    /\ has_hand
    /\ Len(board) = 0
    /\ \A raise_to \in RaiseAmounts : raise_to < current_bet
    /\ \E i \in InHandSeats :
         /\ players[i].last_action = <<"RAISE", current_bet>>
         /\ players[i].bet = current_bet

\* C19: the step that releases the hand moves the button one seat on, modulo
\* the seat count, and the button moves in no other step, so that k
\* start_hand/end_hand cycles leave it k seats on; the hand start_hand builds
\* takes its button from the session and its blinds from the next two seats.
C19_ButtonRotation ==
    [][/\ (has_hand /\ ~has_hand') =>
              button_pos' = (button_pos + 1) % n_seats
       /\ button_pos' # button_pos =>
              /\ button_pos' = (button_pos + 1) % n_seats
              /\ ~has_hand'
       /\ HandStarts =>
              /\ has_hand'
              /\ button_pos' = button_pos
              /\ hand_button_pos' = button_pos
              /\ sb_pos' = (button_pos + 1) % n_seats
              /\ bb_pos' = (button_pos + 2) % n_seats]_vars

\* C19 witness: the second hand, its button one seat past the seat that holds
\* the label of the first hand's button and its big blind wrapped to seat 0.
C19_Witness ==
    /\ has_hand
    /\ hand_number = 2
    /\ hand_button_pos = button_pos
    /\ bb_pos = 0
    /\ sb_pos = n_seats - 1
    /\ players[sb_pos].stack < InitialStack

\* C20 (as claimed): no hand of a session ever has after_action deal from an
\* empty deck.
C20_NoDealFromEmptyDeck ==
    has_hand =>
        ~after_action(players, board, deck, current_bet, in_showdown).raised

(***************************************************************************)
(* Properties of check/call, of the turn, of the chips and of the streets. *)
(***************************************************************************)
\* what a check or call by seat_idx must leave: c is the outcome of the call
CheckOrCallEffect(seat_idx, c, pay) ==
    /\ c.players[seat_idx].stack = players[seat_idx].stack - pay
    /\ c.players[seat_idx].bet = players[seat_idx].bet + pay
    /\ c.pot = pot + pay
    /\ c.players[seat_idx].made_decision_this_round
    /\ c.players[seat_idx].in_hand
    /\ c.players[seat_idx].last_action =
           IF current_bet - players[seat_idx].bet <= 0
           THEN <<"CHECK">> ELSE <<"CALL">>
    /\ c.current_bet = current_bet
    /\ \A o \in Seats \ {seat_idx} : c.players[o] = players[o]

\* C21: a check or call by an in_hand seat moves pay = min(max(0, current_bet
\* - bet), stack) chips from its stack to its bet and to the pot, sets its
\* acted flag, labels it CHECK when nothing was needed and CALL otherwise, and
\* leaves current_bet and every other player as they were.
C21_CheckOrCallEffect ==
    has_hand =>
        \A seat_idx \in InHandSeats :
            CheckOrCallEffect(seat_idx,
                apply_action(players, current_bet, pot, seat_idx, "check",
                             NoAmount),
                Min(Max(0, current_bet - players[seat_idx].bet),
                    players[seat_idx].stack))

\* C21 witness: a seat that called with its last chips for less than
\* current_bet while another seat holds current_bet.
C21_Witness ==
    /\ has_hand
    /\ \E i \in InHandSeats, j \in InHandSeats :
         /\ players[i].last_action = <<"CALL">>
         /\ players[i].stack = 0
         /\ players[i].bet < current_bet
         /\ players[j].bet = current_bet
         /\ players[j].stack > 0

\* the seat d places after idx in seating order
SeatAfter(idx, d) == (idx + d) % n_seats

\* C22: the turn goes to the first in_hand seat strictly after the previous
\* actor in cyclic seating order, the previous actor itself when it is the
\* only one in_hand; it is read off the previous index and the in_hand flags
\* alone, and with no seat in_hand the index stays.
C22_TurnAdvance ==
    has_hand =>
        \A idx \in Seats :
            IF InHandSeats = {}
            THEN advance_to_next_in_hand(players, idx) = idx
            ELSE \E d \in 1 .. n_seats :
                    /\ advance_to_next_in_hand(players, idx) = SeatAfter(idx, d)
                    /\ SeatAfter(idx, d) \in InHandSeats
                    /\ \A e \in 1 .. (d - 1) : SeatAfter(idx, e) \notin InHandSeats

\* C22 witness: the turn rests on the one seat left in_hand, two seats past
\* the first actor of the hand.
C22_Witness ==
    /\ has_hand
    /\ InHandSeats = {current_player_idx}
    /\ current_player_idx = (bb_pos + 3) % n_seats
    /\ advance_to_next_in_hand(players, current_player_idx) = current_player_idx
    /\ \A i \in Seats \ InHandSeats : players[i].last_action = <<"FOLD">>

\* two successive states of one hand
SameHand == has_hand /\ has_hand' /\ ~HandStarts

NonNegativeChips ==
    \A i \in Seats : players[i].stack >= 0 /\ players[i].bet >= 0

\* within a hand no stack grows and the pot does not shrink
PaymentsKept ==
    SameHand =>
        /\ \A i \in Seats : players'[i].stack <= players[i].stack
        /\ pot' >= pot

\* C23: every stack and every bet is non-negative in every reachable state,
\* and within one hand no step increases a stack or decreases the pot.
C23_PaymentsClamped == []NonNegativeChips /\ [][PaymentsKept]_vars

\* the board only grows, by the flop, the turn or the river
StreetOrder ==
    /\ Len(board') \in {0, 3, 4, 5}
    /\ SameHand =>
         /\ <<Len(board), Len(board')>> \in
                {<<0, 0>>, <<3, 3>>, <<4, 4>>, <<5, 5>>,
                 <<0, 3>>, <<3, 4>>, <<4, 5>>}
         /\ SubSeq(board', 1, Len(board)) = board

\* some action of a seat leaves a complete round and the pot and the in_hand
\* flags of the next state
CompletedBy(action, raise_to) ==
    \E seat_idx \in Seats :
        LET r == apply_action(players, current_bet, pot, seat_idx, action,
                              raise_to)
        IN  /\ betting_round_complete(r.players)
            /\ pot' = r.pot
            /\ \A i \in Seats : players'[i].in_hand = r.players[i].in_hand

ShowdownFromRiver ==
    EntersShowdown =>
        /\ Len(board) = 5
        /\ board' = board
        /\ \/ CompletedBy("fold", NoAmount)
           \/ CompletedBy("check", NoAmount)
           \/ \E raise_to \in UIRaiseAmounts : CompletedBy("raise", raise_to)

ShowdownIsFinal ==
    (SameHand /\ in_showdown) =>
        /\ in_showdown'
        /\ UNCHANGED <<players, pot, current_bet, board, deck, current_player_idx>>

\* C24: under the handlers of the table (action, turn advance, completion
\* check, street advance) the board of a hand has 0, 3, 4 or 5 cards and only
\* moves 0 -> 3 -> 4 -> 5, cards once on the board stay as dealt, showdown is
\* entered only from 5 board cards by an action that leaves a complete
\* round, and a hand in showdown stays in showdown and takes no more actions.
C24_StreetOrder ==
    [][StreetOrder /\ ShowdownFromRiver /\ ShowdownIsFinal]_vars

(***************************************************************************)
(* Properties of a session of several hands.                               *)
(***************************************************************************)
RECURSIVE ClosesWithin(_, _, _, _, _)
\* the current actor checks or calls, the turn advances, and so on for at
\* most k actions: some action leaves a complete round
ClosesWithin(ps, cb, pt, idx, k) ==
    IF k = 0 THEN FALSE
    ELSE LET r == apply_action(ps, cb, pt, idx, "check", NoAmount)
         IN  \/ betting_round_complete(r.players)
             \/ ClosesWithin(r.players, r.current_bet, r.pot,
                             advance_to_next_in_hand(r.players, idx), k - 1)

\* C25: from every reachable state of a hand not in showdown, whatever the
\* stacks, if each current actor in turn checks or calls, then
\* betting_round_complete becomes true within n_seats actions.
C25_CallsCloseTheRound ==
    (has_hand /\ ~in_showdown) =>
        ClosesWithin(players, current_bet, pot, current_player_idx, n_seats)

RoleSeats(role) == {i \in Seats : players[i].name[2] = role}

\* C26: in the active hand exactly one name carries the Button label, one
\* the SB label and one the BB label, and they are the seats at the hand's
\* button, small blind and big blind positions.
C26_RoleLabelsTrackHand ==
    has_hand =>
        /\ RoleSeats("Button") = {hand_button_pos}
        /\ RoleSeats("SB") = {sb_pos}
        /\ RoleSeats("BB") = {bb_pos}

====
